---- MODULE Spec2Model ----
(***************************************************************************)
(* The wallet-migration consolidation planner: discovery of the account    *)
(* set, gas redistribution (transferGas), token sweep (transferTokens),    *)
(* balance drain (transferBalances / getBalanceTx) and the pipeline of     *)
(* main, which sends and awaits each phase's transactions.                 *)
(*                                                                         *)
(* Amounts (balances, values, fees) and gas prices are counted in units of *)
(* WeiPerUnit wei, gas in gas units.  big.Int arithmetic is unbounded, so  *)
(* amounts are plain integers.                                             *)
(*                                                                         *)
(* Signing with the account's own key is taken to succeed in transferGas   *)
(* and getBalanceTx (the code exits the process otherwise); in             *)
(* transferTokens, where the code skips the token, it may fail.            *)
(***************************************************************************)
EXTENDS Integers, Sequences, FiniteSets, TLC

\* ------------------------------------------------------------------ bounds
NumAccounts == 2        \* candidate accounts handed to discovery
MaxLogs == 2            \* transfer-log entries returned for one account
WeiPerUnit == 250000    \* wei in one unit of amount of the model

\* --------------------------------------------------------------- constants
TransferGas == 21000                          \* gas of a native transfer
FallbackGasEstimate == 40000                  \* estimate used when EstimateGas fails
GasPriceStepWei == 1000000                    \* wei taken off the gas price per retry
GasPriceDecrement == GasPriceStepWei \div WeiPerUnit

\* ------------------------------------------------------------ input values
Addresses == 1..NumAccounts
Contracts == {1, 2, 3}
\* BalanceOf(contract) as answered by the node: contract 3 holds nothing
TokenBalanceAt == <<9, 5, 0>>
Balances == {0, 55000, 120000}
\* NonceAt / PendingNonceAt(address) as answered by the node
NonceAt(a) == 3 * a
GasPrices == {0, 1, 5}
Overrides == {0, 30000}
EstimateFails == -1
Estimates == {EstimateFails, 50000}
LogsFail == <<-1>>
RefreshFails == -1
RefreshResponses == {RefreshFails, 55000}

RECURSIVE SeqsUpTo(_, _)
SeqsUpTo(S, n) ==
    IF n = 0 THEN {<<>>}
    ELSE LET shorter == SeqsUpTo(S, n - 1)
         IN  shorter \cup {Append(s, e) : s \in {t \in shorter : Len(t) = n - 1}, e \in S}

LogResults == SeqsUpTo(Contracts, MaxLogs) \cup {LogsFail}

Perms(S) == {p \in [1..Cardinality(S) -> S] : \A a \in S : \E k \in DOMAIN p : p[k] = a}

AccountTo(a) == [kind |-> "account", id |-> a]
ContractTo(c) == [kind |-> "contract", id |-> c]
Destination == [kind |-> "destination", id |-> 0]

VARIABLES
    pc,                             \* position in main
    simulate,                       \* settings.Simulate
    gasPrice,                       \* result of GetGasPrice
    accounts,                       \* the account slice handed from phase to phase
    gasTransactions,                \* result of transferGas
    tokenTransactions,              \* result of transferTokens
    balanceEmptyingTransactions,    \* result of transferBalances
    phase,                          \* which sendTransactions call of main is running
    sendIdx,                        \* loop index in sendTransactions / AwaitTransactions
    x, y,                           \* loop indices of transferTokens / transferBalances
    drainPrice,                     \* gasPrice argument of the current getBalanceTx call
    pending,                        \* of the transactions of the phase sent last, those the
                                    \* node holds as pending (older ones are not tracked)
    transferGasLimit,               \* settings.TransferGasLimit
    node                            \* the node's answers to the queries of discovery

vars == <<pc, simulate, gasPrice, accounts, gasTransactions, tokenTransactions,
          balanceEmptyingTransactions, phase, sendIdx, x, y, drainPrice, pending,
          transferGasLimit, node>>

\* the node's answers once discovery has read them
NodeRead == [balance |-> [a \in Addresses |-> 0], logs |-> [a \in Addresses |-> <<>>],
             estimate |-> 0]

\* the settings, the gas price of GetGasPrice and the node as discovery will find it
Init ==
    /\ pc = "start"
    /\ simulate \in BOOLEAN
    /\ gasPrice \in GasPrices
    /\ transferGasLimit \in Overrides
    /\ node \in [balance : [Addresses -> Balances], logs : [Addresses -> LogResults],
                 estimate : Estimates]
    /\ accounts = <<>>
    /\ gasTransactions = <<>>
    /\ tokenTransactions = <<>>
    /\ balanceEmptyingTransactions = <<>>
    /\ phase = 0
    /\ sendIdx = 1
    /\ x = 1
    /\ y = 0
    /\ drainPrice = 0
    /\ pending = {}

\* ------------------------------------------------------------ sort.Slice
Swap(s, j, k) == [s EXCEPT ![j] = s[k], ![k] = s[j]]

\* faulty variant: smallest holding first
TokensLess_Ascending(a, b) == a.Balance <= b.Balance

\* the three less functions handed to sort.Slice
PositivesLess(a, b) == a.Available >= b.Available
NegativesLess(a, b) == a.Available <= b.Available
TokensLess(a, b) == a.Balance >= b.Balance

Less(kind, a, b) ==
    CASE kind = "positives" -> PositivesLess(a, b)
      [] kind = "negatives" -> NegativesLess(a, b)
      [] kind = "tokens" -> TokensLess(a, b)

\* sort.Slice on a slice of at most 12 elements is an insertion sort
RECURSIVE InsertLeft(_, _, _)
InsertLeft(kind, s, j) ==
    IF j > 1 /\ Less(kind, s[j], s[j - 1])
    THEN InsertLeft(kind, Swap(s, j, j - 1), j - 1)
    ELSE s

RECURSIVE InsertionSortFrom(_, _, _)
InsertionSortFrom(kind, s, k) ==
    IF k > Len(s) THEN s ELSE InsertionSortFrom(kind, InsertLeft(kind, s, k), k + 1)

SortSlice(kind, s) == InsertionSortFrom(kind, s, 2)

\* --------------------------------------------------------------- discovery
\* transferGas of getTokenTransfers: int64(float64(gasLimit) * 1.7), then the override
TokenTransferGas(est, overrideGasLimit) ==
    LET gasLimit == IF est = EstimateFails THEN FallbackGasEstimate ELSE est
        inflated == (gasLimit * 17) \div 10
    IN  IF gasLimit > 0 THEN overrideGasLimit ELSE inflated

\* the log entries whose contract reports a balance other than zero
HeldEntries(logs) == SelectSeq(logs, LAMBDA c : TokenBalanceAt[c] # 0)

TokenSet(logs) == {HeldEntries(logs)[k] : k \in DOMAIN HeldEntries(logs)}

RECURSIVE SumTransferGas(_, _, _)
SumTransferGas(entries, est, overrideGasLimit) ==
    IF entries = <<>> THEN 0
    ELSE TokenTransferGas(est, overrideGasLimit)
         + SumTransferGas(Tail(entries), est, overrideGasLimit)

MakeToken(c, est, overrideGasLimit) ==
    [Contract |-> c, Balance |-> TokenBalanceAt[c],
     GasLimit |-> TokenTransferGas(est, overrideGasLimit)]

\* one account through getBalances and getTokenTransfers; tokenOrder is the
\* iteration order of the tokens map
DiscoverAccount(a, bal, logs, est, overrideGasLimit, tokenOrder) ==
    LET failed == logs = LogsFail
        tokens == IF failed THEN <<>>
                  ELSE [k \in DOMAIN tokenOrder |->
                           MakeToken(tokenOrder[k], est, overrideGasLimit)]
        acct == [Address |-> a,
                 Balance |-> bal,
                 TotalAssetTransfer |->
                     IF failed THEN 0
                     ELSE SumTransferGas(HeldEntries(logs), est, overrideGasLimit),
                 Available |-> 0,
                 Nonce |-> NonceAt(a),
                 Tokens |-> tokens]
    IN  [used |-> /\ ~failed
                  /\ Len(logs) > 0
                  /\ (Len(tokens) > 0 \/ bal # 0),
         acct |-> acct]

\* the outcomes of discovery for account a: one per iteration order of its tokens map
Discovered(a) ==
    { DiscoverAccount(a, node.balance[a], node.logs[a], node.estimate, transferGasLimit, ord) :
          ord \in Perms(IF node.logs[a] = LogsFail THEN {} ELSE TokenSet(node.logs[a])) }

\* the addresses GetAccounts derives from the keys of the settings
Candidates == DOMAIN node.balance

\* main up to the call of transferGas: GetAccounts (a map iteration, so in any
\* order) and GetUsedAccounts
Start ==
    /\ pc = "start"
    /\ \E order \in Perms(Candidates) :
         \E found \in [Candidates -> UNION {Discovered(a) : a \in Candidates}] :
            /\ \A a \in Candidates : found[a] \in Discovered(a)
            /\ accounts' =
                 LET all == [k \in 1..Cardinality(Candidates) |-> found[order[k]]]
                     kept == SelectSeq(all, LAMBDA r : r.used)
                 IN  [k \in DOMAIN kept |-> kept[k].acct]
    /\ node' = NodeRead
    /\ pc' = "transferGas"
    /\ UNCHANGED <<simulate, gasPrice, transferGasLimit, gasTransactions, tokenTransactions,
                   balanceEmptyingTransactions, phase, sendIdx, x, y, drainPrice, pending>>

\* ------------------------------------------------------------- transferGas
TotalAssetTransferPrice(acct, g) == g * acct.TotalAssetTransfer

IsNegative(acct, g) == TotalAssetTransferPrice(acct, g) > acct.Balance

\* the partition loop: every account's Available is set, whichever side it joins
WithAvailable(accs, g) ==
    [k \in DOMAIN accs |->
        [accs[k] EXCEPT !.Available = accs[k].Balance - TotalAssetTransferPrice(accs[k], g)]]

Negatives(accs, g) ==
    SortSlice("negatives", SelectSeq(WithAvailable(accs, g), LAMBDA a : IsNegative(a, g)))

Positives(accs, g) ==
    SortSlice("positives", SelectSeq(WithAvailable(accs, g), LAMBDA a : ~IsNegative(a, g)))

TransferCost(g) == g * TransferGas

\* the body of the inner loop for one (negative, positive) pair, up to the test
\* that guards the emission
GasPlan(neg, pos, g) ==
    LET totalAmountNeeded == TotalAssetTransferPrice(neg, g)
        totalAmountNeededToTransfer == totalAmountNeeded + TransferCost(g)
        availableAfterTransfer == pos.Available - totalAmountNeededToTransfer
        short == availableAfterTransfer < 0
    IN  [totalAmountNeeded |-> IF short THEN pos.Available - TransferCost(g)
                               ELSE totalAmountNeeded,
         totalAmountNeededToTransfer |-> totalAmountNeededToTransfer,
         availableAfterTransfer |-> IF short THEN 0 ELSE availableAfterTransfer,
         short |-> short]

\* faulty variant: only a pair whose sender covers need + fee emits
GasPlanEmits_CoveredOnly(plan) == ~plan.short

GasPlanEmits(plan) == plan.availableAfterTransfer >= 0

\* the (x, y) pairs in the order the nested loops visit them
PairBefore(p, q) == p[1] < q[1] \/ (p[1] = q[1] /\ p[2] < q[2])

EmittingPairs(negs, poss, g) ==
    {p \in (DOMAIN negs) \X (DOMAIN poss) : GasPlanEmits(GasPlan(negs[p[1]], poss[p[2]], g))}

FirstPair(negs, poss, g) ==
    CHOOSE p \in EmittingPairs(negs, poss, g) :
        \A q \in EmittingPairs(negs, poss, g) : q = p \/ PairBefore(p, q)

\* faulty variant: returns only once both lists are empty
NoPairLeft_BothEmpty(negs, poss, g) == negs = <<>> /\ poss = <<>>

\* the nested loops visit every pair without emitting: transferGas returns
NoPairLeft(negs, poss, g) == EmittingPairs(negs, poss, g) = {}

\* faulty variant: the fee of the transfer is not taken off the sender
GasSenderAfter_NoFee(pos, plan) ==
    [pos EXCEPT !.Balance = pos.Available - plan.totalAmountNeeded,
                !.Nonce = pos.Nonce + 1]

\* the sender after the transaction is emitted
GasSenderAfter(pos, plan) ==
    [pos EXCEPT !.Balance = pos.Available - plan.totalAmountNeededToTransfer,
                !.Nonce = pos.Nonce + 1]

\* faulty variant: the receiver is credited with the fee as well
GasReceiverAfter_CreditsFee(neg, plan) ==
    [neg EXCEPT !.Balance = neg.Balance + plan.totalAmountNeededToTransfer]

\* the receiver after the transaction is emitted
GasReceiverAfter(neg, plan) ==
    [neg EXCEPT !.Balance = neg.Balance + plan.totalAmountNeeded]

GasTx(neg, pos, plan, g) ==
    [Address |-> pos.Address, Nonce |-> pos.Nonce, To |-> AccountTo(neg.Address),
     Value |-> plan.totalAmountNeeded, Gas |-> TransferGas, GasPrice |-> g, Data |-> <<>>]

\* one call of transferGas that emits a transaction and recurses
TransferGasEmit ==
    /\ pc = "transferGas"
    /\ LET negs == Negatives(accounts, gasPrice)
           poss == Positives(accounts, gasPrice)
       IN  /\ EmittingPairs(negs, poss, gasPrice) # {}
           /\ LET p == FirstPair(negs, poss, gasPrice)
                  plan == GasPlan(negs[p[1]], poss[p[2]], gasPrice)
              IN  /\ gasTransactions' =
                        Append(gasTransactions, GasTx(negs[p[1]], poss[p[2]], plan, gasPrice))
                  /\ accounts' =
                        [negs EXCEPT ![p[1]] = GasReceiverAfter(negs[p[1]], plan)]
                        \o [poss EXCEPT ![p[2]] = GasSenderAfter(poss[p[2]], plan)]
    /\ UNCHANGED <<pc, simulate, gasPrice, tokenTransactions, balanceEmptyingTransactions,
                   phase, sendIdx, x, y, drainPrice, pending, transferGasLimit, node>>

\* the call of transferGas that finds no pair and returns
TransferGasReturn ==
    /\ pc = "transferGas"
    /\ NoPairLeft(Negatives(accounts, gasPrice), Positives(accounts, gasPrice), gasPrice)
    /\ accounts' = WithAvailable(accounts, gasPrice)
    /\ pc' = "send"
    /\ phase' = 1
    /\ sendIdx' = 1
    /\ UNCHANGED <<simulate, gasPrice, gasTransactions, tokenTransactions,
                   balanceEmptyingTransactions, x, y, drainPrice, pending, transferGasLimit, node>>

\* transferGas as a function of the slice it is called with: the calls recurse
\* until one visits every pair without emitting
RECURSIVE TransferGasResult(_, _, _)
TransferGasResult(accs, txs, g) ==
    LET negs == Negatives(accs, g)
        poss == Positives(accs, g)
    IN  IF EmittingPairs(negs, poss, g) = {}
        THEN [accounts |-> WithAvailable(accs, g), transactions |-> txs]
        ELSE LET p == FirstPair(negs, poss, g)
                 plan == GasPlan(negs[p[1]], poss[p[2]], g)
             IN  TransferGasResult(
                     [negs EXCEPT ![p[1]] = GasReceiverAfter(negs[p[1]], plan)]
                     \o [poss EXCEPT ![p[2]] = GasSenderAfter(poss[p[2]], plan)],
                     Append(txs, GasTx(negs[p[1]], poss[p[2]], plan, g)),
                     g)

\* --------------------------------------------------------- sendTransactions
Transactions(ph) ==
    CASE ph = 1 -> gasTransactions
      [] ph = 2 -> tokenTransactions
      [] ph = 3 -> balanceEmptyingTransactions
      [] OTHER -> <<>>

TxId(ph, k) == <<ph, k>>

\* faulty variant: the balances are refreshed in simulate mode too
AfterSend_AlwaysRefresh(ph) ==
    /\ pc' = CASE ph = 1 -> "transferTokens"
               [] ph = 2 -> "refresh"
               [] OTHER -> "done"
    /\ x' = 1
    /\ y' = 0
    /\ drainPrice' = gasPrice
    /\ sendIdx' = 1

\* what main does after the sendTransactions call of phase ph has returned
AfterSend(ph) ==
    /\ pc' = CASE ph = 1 -> "transferTokens"
               [] ph = 2 -> IF simulate THEN "transferBalances" ELSE "refresh"
               [] OTHER -> "done"
    /\ x' = 1
    /\ y' = 0
    /\ drainPrice' = gasPrice
    /\ sendIdx' = 1

\* simulate: the transaction is printed and the loop continues
ReportTx ==
    /\ pc = "send"
    /\ simulate
    /\ sendIdx <= Len(Transactions(phase))
    /\ sendIdx' = sendIdx + 1
    /\ UNCHANGED <<pc, simulate, gasPrice, accounts, gasTransactions, tokenTransactions,
                   balanceEmptyingTransactions, phase, x, y, drainPrice, pending, transferGasLimit, node>>

\* client.SendTx accepts the transaction: the node holds it as pending
SendTxOk ==
    /\ pc = "send"
    /\ ~simulate
    /\ sendIdx <= Len(Transactions(phase))
    /\ pending' = pending \cup {TxId(phase, sendIdx)}
    /\ sendIdx' = sendIdx + 1
    /\ UNCHANGED <<pc, simulate, gasPrice, accounts, gasTransactions, tokenTransactions,
                   balanceEmptyingTransactions, phase, x, y, drainPrice, transferGasLimit, node>>

\* faulty variant: a failed submission ends the loop
SendTxErr_Abort ==
    /\ pc = "send"
    /\ ~simulate
    /\ sendIdx <= Len(Transactions(phase))
    /\ sendIdx' = Len(Transactions(phase)) + 1
    /\ UNCHANGED <<pc, simulate, gasPrice, accounts, gasTransactions, tokenTransactions,
                   balanceEmptyingTransactions, phase, x, y, drainPrice, pending, transferGasLimit, node>>

\* client.SendTx fails: logged, the loop continues
SendTxErr ==
    /\ pc = "send"
    /\ ~simulate
    /\ sendIdx <= Len(Transactions(phase))
    /\ sendIdx' = sendIdx + 1
    /\ UNCHANGED <<pc, simulate, gasPrice, accounts, gasTransactions, tokenTransactions,
                   balanceEmptyingTransactions, phase, x, y, drainPrice, pending, transferGasLimit, node>>

\* the loop of sendTransactions is over
SendLoopEnd ==
    /\ pc = "send"
    /\ sendIdx > Len(Transactions(phase))
    /\ IF simulate
       THEN AfterSend(phase)
       ELSE /\ pc' = "await"
            /\ sendIdx' = 1
            /\ UNCHANGED <<x, y, drainPrice>>
    /\ UNCHANGED <<simulate, gasPrice, accounts, gasTransactions, tokenTransactions,
                   balanceEmptyingTransactions, phase, pending, transferGasLimit, node>>

\* one iteration of the loop of AwaitTransactions: TransactionByHash is asked once;
\* pending or not (an error counts as pending), the loop goes on to the next one
AwaitCheck ==
    /\ pc = "await"
    /\ sendIdx <= Len(Transactions(phase))
    /\ sendIdx' = sendIdx + 1
    /\ UNCHANGED <<pc, simulate, gasPrice, accounts, gasTransactions, tokenTransactions,
                   balanceEmptyingTransactions, phase, x, y, drainPrice, pending, transferGasLimit, node>>

AwaitReturn ==
    /\ pc = "await"
    /\ sendIdx > Len(Transactions(phase))
    /\ AfterSend(phase)
    /\ UNCHANGED <<simulate, gasPrice, accounts, gasTransactions, tokenTransactions,
                   balanceEmptyingTransactions, phase, pending, transferGasLimit, node>>

\* the network mines a pending transaction
Mine ==
    /\ \E t \in pending : pending' = pending \ {t}
    /\ UNCHANGED <<pc, simulate, gasPrice, accounts, gasTransactions, tokenTransactions,
                   balanceEmptyingTransactions, phase, sendIdx, x, y, drainPrice, transferGasLimit, node>>

\* ---------------------------------------------------------- transferTokens
TokenTransferCost(token, g) == g * token.GasLimit

\* faulty variant: a Balance that equals the fee does not pay for the token
TokenAffordable_Strict(acct, token, g) == acct.Balance > TokenTransferCost(token, g)

TokenAffordable(acct, token, g) == acct.Balance >= TokenTransferCost(token, g)

SortedTokens(acct) == SortSlice("tokens", acct.Tokens)

TokenTx(acct, token, g) ==
    [Address |-> acct.Address, Nonce |-> acct.Nonce, To |-> ContractTo(token.Contract),
     Value |-> 0, Gas |-> token.GasLimit, GasPrice |-> g, Data |-> <<token.Balance>>]

\* faulty variant: the nonce is not advanced
SweepAccountAfter_SameNonce(acct, token, g) ==
    [acct EXCEPT !.Balance = acct.Balance - TokenTransferCost(token, g)]

\* the account after a token transfer is emitted
SweepAccountAfter(acct, token, g) ==
    [acct EXCEPT !.Nonce = acct.Nonce + 1,
                 !.Balance = acct.Balance - TokenTransferCost(token, g)]

\* the loop indices after token y of account x
NextToken ==
    IF y < Len(accounts[x].Tokens)
    THEN y' = y + 1 /\ x' = x
    ELSE y' = 0 /\ x' = x + 1

\* the top of the outer loop: the account's tokens are sorted
SortTokens ==
    /\ pc = "transferTokens"
    /\ x <= Len(accounts)
    /\ y = 0
    /\ accounts' = [accounts EXCEPT ![x].Tokens = SortedTokens(accounts[x])]
    /\ IF Len(accounts[x].Tokens) = 0
       THEN x' = x + 1 /\ y' = 0
       ELSE x' = x /\ y' = 1
    /\ UNCHANGED <<pc, simulate, gasPrice, gasTransactions, tokenTransactions,
                   balanceEmptyingTransactions, phase, sendIdx, drainPrice, pending, transferGasLimit, node>>

\* the inner loop on an affordable token that signs
SweepToken ==
    /\ pc = "transferTokens"
    /\ x <= Len(accounts)
    /\ y >= 1
    /\ TokenAffordable(accounts[x], accounts[x].Tokens[y], gasPrice)
    /\ tokenTransactions' =
          Append(tokenTransactions, TokenTx(accounts[x], accounts[x].Tokens[y], gasPrice))
    /\ accounts' =
          [accounts EXCEPT ![x] = SweepAccountAfter(accounts[x], accounts[x].Tokens[y], gasPrice)]
    /\ NextToken
    /\ UNCHANGED <<pc, simulate, gasPrice, gasTransactions, balanceEmptyingTransactions,
                   phase, sendIdx, drainPrice, pending, transferGasLimit, node>>

\* faulty variant: the nonce is advanced before the signature is tested
SweepSignFails_NonceAdvanced ==
    /\ pc = "transferTokens"
    /\ x <= Len(accounts)
    /\ y >= 1
    /\ TokenAffordable(accounts[x], accounts[x].Tokens[y], gasPrice)
    /\ accounts' = [accounts EXCEPT ![x].Nonce = accounts[x].Nonce + 1]
    /\ NextToken
    /\ UNCHANGED <<pc, simulate, gasPrice, gasTransactions, tokenTransactions,
                   balanceEmptyingTransactions, phase, sendIdx, drainPrice, pending, transferGasLimit, node>>

\* the inner loop on an affordable token whose signing fails
SweepSignFails ==
    /\ pc = "transferTokens"
    /\ x <= Len(accounts)
    /\ y >= 1
    /\ TokenAffordable(accounts[x], accounts[x].Tokens[y], gasPrice)
    /\ NextToken
    /\ UNCHANGED <<pc, simulate, gasPrice, accounts, gasTransactions, tokenTransactions,
                   balanceEmptyingTransactions, phase, sendIdx, drainPrice, pending, transferGasLimit, node>>

\* faulty variant: a token that cannot be paid for ends the account's loop
SweepSkip_EndsAccount ==
    /\ pc = "transferTokens"
    /\ x <= Len(accounts)
    /\ y >= 1
    /\ ~TokenAffordable(accounts[x], accounts[x].Tokens[y], gasPrice)
    /\ x' = x + 1
    /\ y' = 0
    /\ UNCHANGED <<pc, simulate, gasPrice, accounts, gasTransactions, tokenTransactions,
                   balanceEmptyingTransactions, phase, sendIdx, drainPrice, pending, transferGasLimit, node>>

\* the inner loop on a token the account cannot pay for
SweepSkip ==
    /\ pc = "transferTokens"
    /\ x <= Len(accounts)
    /\ y >= 1
    /\ ~TokenAffordable(accounts[x], accounts[x].Tokens[y], gasPrice)
    /\ NextToken
    /\ UNCHANGED <<pc, simulate, gasPrice, accounts, gasTransactions, tokenTransactions,
                   balanceEmptyingTransactions, phase, sendIdx, drainPrice, pending, transferGasLimit, node>>

TransferTokensReturn ==
    /\ pc = "transferTokens"
    /\ x > Len(accounts)
    /\ pc' = "send"
    /\ phase' = 2
    /\ sendIdx' = 1
    /\ pending' = {}
    /\ UNCHANGED <<simulate, gasPrice, accounts, gasTransactions, tokenTransactions,
                   balanceEmptyingTransactions, x, y, drainPrice, transferGasLimit, node>>

\* the inner loop of transferTokens from token k of the sorted tokens on, every
\* signature succeeding
RECURSIVE SweepAccountResult(_, _, _, _)
SweepAccountResult(acct, k, txs, g) ==
    IF k > Len(acct.Tokens) THEN [acct |-> acct, transactions |-> txs]
    ELSE IF TokenAffordable(acct, acct.Tokens[k], g)
         THEN SweepAccountResult(SweepAccountAfter(acct, acct.Tokens[k], g), k + 1,
                                 Append(txs, TokenTx(acct, acct.Tokens[k], g)), g)
         ELSE SweepAccountResult(acct, k + 1, txs, g)

\* transferTokens as a function of the slice it is called with, from account k on
RECURSIVE TransferTokensResult(_, _, _, _)
TransferTokensResult(accs, k, txs, g) ==
    IF k > Len(accs) THEN txs
    ELSE TransferTokensResult(
             accs, k + 1,
             SweepAccountResult([accs[k] EXCEPT !.Tokens = SortedTokens(accs[k])], 1, txs, g)
                 .transactions,
             g)

\* -------------------------------------------------------- transferBalances
\* GetPendingBalances: each account's Balance is set to the node's answer, or
\* kept when the query fails
GetPendingBalances ==
    /\ pc = "refresh"
    /\ \E resp \in [DOMAIN accounts -> RefreshResponses] :
          accounts' = [k \in DOMAIN accounts |->
                          IF resp[k] = RefreshFails THEN accounts[k]
                          ELSE [accounts[k] EXCEPT !.Balance = resp[k]]]
    /\ pc' = "transferBalances"
    /\ UNCHANGED <<simulate, gasPrice, gasTransactions, tokenTransactions,
                   balanceEmptyingTransactions, phase, sendIdx, x, y, drainPrice, pending,
                   transferGasLimit, node>>

\* totalAmountToTransfer of getBalanceTx
Transferable(acct, price) == acct.Balance - price * TransferGas

\* faulty variant: the gas price is not tested
DrainEmits_AnyPrice(acct, price) == Transferable(acct, price) > 0

DrainEmits(acct, price) == Transferable(acct, price) > 0 /\ price > 0

DrainRetries(acct, price) == ~DrainEmits(acct, price) /\ price > 0

\* faulty variant: the transaction carries the gas price of the run
BalanceTx_RunPrice(acct, price) ==
    [Address |-> acct.Address, Nonce |-> acct.Nonce, To |-> Destination,
     Value |-> Transferable(acct, price), Gas |-> TransferGas, GasPrice |-> gasPrice,
     Data |-> <<>>]

BalanceTx(acct, price) ==
    [Address |-> acct.Address, Nonce |-> acct.Nonce, To |-> Destination,
     Value |-> Transferable(acct, price), Gas |-> TransferGas, GasPrice |-> price,
     Data |-> <<>>]

\* a getBalanceTx call that returns a transaction, which transferBalances appends
GetBalanceTxEmit ==
    /\ pc = "transferBalances"
    /\ x <= Len(accounts)
    /\ DrainEmits(accounts[x], drainPrice)
    /\ balanceEmptyingTransactions' =
          Append(balanceEmptyingTransactions, BalanceTx(accounts[x], drainPrice))
    /\ x' = x + 1
    /\ drainPrice' = gasPrice
    /\ UNCHANGED <<pc, simulate, gasPrice, accounts, gasTransactions, tokenTransactions,
                   phase, sendIdx, y, pending, transferGasLimit, node>>

\* a getBalanceTx call that calls itself with a lower gas price
GetBalanceTxRetry ==
    /\ pc = "transferBalances"
    /\ x <= Len(accounts)
    /\ DrainRetries(accounts[x], drainPrice)
    /\ drainPrice' = drainPrice - GasPriceDecrement
    /\ UNCHANGED <<pc, simulate, gasPrice, accounts, gasTransactions, tokenTransactions,
                   balanceEmptyingTransactions, phase, sendIdx, x, y, pending, transferGasLimit, node>>

\* a getBalanceTx call that returns nil
GetBalanceTxNil ==
    /\ pc = "transferBalances"
    /\ x <= Len(accounts)
    /\ ~DrainEmits(accounts[x], drainPrice)
    /\ ~DrainRetries(accounts[x], drainPrice)
    /\ x' = x + 1
    /\ drainPrice' = gasPrice
    /\ UNCHANGED <<pc, simulate, gasPrice, accounts, gasTransactions, tokenTransactions,
                   balanceEmptyingTransactions, phase, sendIdx, y, pending, transferGasLimit, node>>

TransferBalancesReturn ==
    /\ pc = "transferBalances"
    /\ x > Len(accounts)
    /\ pc' = "send"
    /\ phase' = 3
    /\ sendIdx' = 1
    /\ pending' = {}
    /\ UNCHANGED <<simulate, gasPrice, accounts, gasTransactions, tokenTransactions,
                   balanceEmptyingTransactions, x, y, drainPrice, transferGasLimit, node>>

Next ==
    \/ Start
    \/ TransferGasEmit
    \/ TransferGasReturn
    \/ ReportTx
    \/ SendTxOk
    \/ SendTxErr
    \/ SendLoopEnd
    \/ AwaitCheck
    \/ AwaitReturn
    \/ Mine
    \/ SortTokens
    \/ SweepToken
    \/ SweepSignFails
    \/ SweepSkip
    \/ TransferTokensReturn
    \/ GetPendingBalances
    \/ GetBalanceTxEmit
    \/ GetBalanceTxRetry
    \/ GetBalanceTxNil
    \/ TransferBalancesReturn

Spec == Init /\ [][Next]_vars

FairSpec == Spec /\ WF_vars(Next)

\* the runs at a gas price of 1 and a token_transfer_gas_limit of 2 over accounts
\* that hold nothing, 10, or the fee of a transfer and a little more
ScenarioBalances == {0, 10, 21002, 21012}

ScenarioInit ==
    /\ pc = "start"
    /\ simulate \in BOOLEAN
    /\ gasPrice = 1
    /\ transferGasLimit = 2
    /\ node \in [balance : [Addresses -> ScenarioBalances], logs : [Addresses -> LogResults],
                 estimate : Estimates]
    /\ accounts = <<>>
    /\ gasTransactions = <<>>
    /\ tokenTransactions = <<>>
    /\ balanceEmptyingTransactions = <<>>
    /\ phase = 0
    /\ sendIdx = 1
    /\ x = 1
    /\ y = 0
    /\ drainPrice = 0
    /\ pending = {}

ScenarioSpec == ScenarioInit /\ [][Next]_vars

\* the runs over one account more, at a gas price of 1 and a
\* token_transfer_gas_limit of 30000: each account holds nothing or 120000 and
\* has received one token, two tokens, or a token it holds no more
RedistributionAddresses == 1..(NumAccounts + 1)
RedistributionBalances == {0, 120000}
RedistributionLogs == {<<1>>, <<1, 2>>, <<3>>}

RedistributionInit ==
    /\ pc = "start"
    /\ simulate \in BOOLEAN
    /\ gasPrice = 1
    /\ transferGasLimit = 30000
    /\ node \in [balance : [RedistributionAddresses -> RedistributionBalances],
                 logs : [RedistributionAddresses -> RedistributionLogs],
                 estimate : Estimates]
    /\ accounts = <<>>
    /\ gasTransactions = <<>>
    /\ tokenTransactions = <<>>
    /\ balanceEmptyingTransactions = <<>>
    /\ phase = 0
    /\ sendIdx = 1
    /\ x = 1
    /\ y = 0
    /\ drainPrice = 0
    /\ pending = {}

RedistributionSpec == RedistributionInit /\ [][Next]_vars

\* ================================================================ properties
Last(s) == s[Len(s)]

AccountAt(accs, a) == accs[CHOOSE k \in DOMAIN accs : accs[k].Address = a]

\* a step of transferGas that emits a transaction
GasEmitted == Len(gasTransactions') = Len(gasTransactions) + 1

\* C1: every transaction emitted by transferGas lowers the sender's Balance by
\* exactly amount + fee and raises the receiver's Balance by exactly the amount.
C1_Conservation ==
    [][GasEmitted =>
         LET tx == Last(gasTransactions')
             sender == tx.Address
             receiver == tx.To.id
         IN  /\ AccountAt(accounts', sender).Balance =
                  AccountAt(accounts, sender).Balance - (tx.Value + TransferCost(gasPrice))
             /\ AccountAt(accounts', receiver).Balance =
                  AccountAt(accounts, receiver).Balance + tx.Value]_vars

\* C2: no native transfer of the gas plan or of the drain plan carries a value
\* that is zero or negative.
C2_PositiveValues ==
    /\ \A k \in DOMAIN gasTransactions : gasTransactions[k].Value > 0
    /\ \A k \in DOMAIN balanceEmptyingTransactions : balanceEmptyingTransactions[k].Value > 0

\* C3: after a transaction of transferGas its sender's Available (Balance minus
\* GasPrice x TotalGasBudget) is not negative: Available - (need + fee) when the
\* sender's Available covered need + fee, zero when it did not.
C3_SenderAvailable ==
    [][GasEmitted =>
         LET tx == Last(gasTransactions')
             before == AccountAt(accounts, tx.Address)
             after == AccountAt(accounts', tx.Address)
             available == before.Balance - TotalAssetTransferPrice(before, gasPrice)
             need == TotalAssetTransferPrice(AccountAt(accounts, tx.To.id), gasPrice)
             availableAfter == after.Balance - TotalAssetTransferPrice(after, gasPrice)
         IN  /\ availableAfter >= 0
             /\ IF available >= need + TransferCost(gasPrice)
                THEN availableAfter = available - (need + TransferCost(gasPrice))
                ELSE availableAfter = 0]_vars

\* C4: transferGas terminates: a call that emits nothing is reached and returns.
C4_GasTerminates == <>(phase = 1)

C4_Witness == phase = 1 /\ Len(gasTransactions) >= 2

\* C5: one run of transferGas emits no more transactions than it was given accounts.
C5_AtMostOnePerAccount == Len(gasTransactions) <= Len(accounts)

\* C6: in the concatenated plan the transactions of one account carry the
\* nonces snapshot, snapshot + 1, ... in list order.
Plan == gasTransactions \o tokenTransactions \o balanceEmptyingTransactions

TxsFrom(txs, a) == SelectSeq(txs, LAMBDA t : t.Address = a)

C6_NoncesInOrder ==
    \A a \in Addresses :
        \A k \in DOMAIN TxsFrom(Plan, a) : TxsFrom(Plan, a)[k].Nonce = NonceAt(a) + k - 1

\* an account with transactions in all three lists, and a token left without one
C6_Witness ==
    /\ pc = "done"
    /\ \E a \in Addresses :
          /\ TxsFrom(gasTransactions, a) # <<>>
          /\ TxsFrom(tokenTransactions, a) # <<>>
          /\ TxsFrom(balanceEmptyingTransactions, a) # <<>>
    /\ \E k \in DOMAIN accounts :
          Len(TxsFrom(tokenTransactions, accounts[k].Address)) < Len(accounts[k].Tokens)

\* C7: when not simulating, planning of the next phase runs only when no
\* transaction of the phase before is pending.
C7_NextPhaseAfterConfirmation ==
    (~simulate /\ pc \in {"transferTokens", "refresh", "transferBalances"}) => pending = {}

\* C8: transferTokens emits a transfer only for a token whose fee the Balance
\* covers when it is evaluated, each emission lowers the Balance by exactly that
\* fee, and an account's tokens are evaluated from the largest holding down.
C8_SweepAffordableLargestFirst ==
    [][(pc = "transferTokens" /\ x <= Len(accounts) /\ y >= 1) =>
         LET acct == accounts[x]
             token == acct.Tokens[y]
             fee == gasPrice * token.GasLimit
         IN  /\ tokenTransactions' # tokenTransactions =>
                  /\ acct.Balance >= fee
                  /\ accounts'[x].Balance = acct.Balance - fee
                  /\ tokenTransactions' = Append(tokenTransactions, Last(tokenTransactions'))
                  /\ Last(tokenTransactions').Address = acct.Address
                  /\ Last(tokenTransactions').To = ContractTo(token.Contract)
             /\ \A j \in 1..(y - 1) : acct.Tokens[j].Balance >= token.Balance
             /\ \A j \in (y + 1)..Len(acct.Tokens) : acct.Tokens[j].Balance <= token.Balance
             /\ (x' = x /\ y' = y) \/ (x' = x /\ y' = y + 1) \/ (x' = x + 1 /\ y' = 0)]_vars

\* the second token of an account is up after the first was swept
C8_Witness ==
    /\ pc = "transferTokens"
    /\ x <= Len(accounts)
    /\ y = 2
    /\ accounts[x].Tokens[1].Balance > accounts[x].Tokens[2].Balance
    /\ TxsFrom(tokenTransactions, accounts[x].Address) # <<>>

\* the prices getBalanceTx tries for one account, in order
DrainPriceAt(n) == gasPrice - n * GasPriceDecrement

\* C9: a drain transaction has a positive gas price and a positive value,
\* value + 21000 x its gas price is the account's Balance, and its gas price is
\* the first of GasPrice, GasPrice - d, ... that leaves a positive amount.
C9_DrainExact ==
    \A k \in DOMAIN balanceEmptyingTransactions :
        LET tx == balanceEmptyingTransactions[k]
            balance == AccountAt(accounts, tx.Address).Balance
        IN  /\ tx.GasPrice > 0
            /\ tx.Value > 0
            /\ tx.Value + 21000 * tx.GasPrice = balance
            /\ \E n \in 0..gasPrice :
                  /\ tx.GasPrice = DrainPriceAt(n)
                  /\ \A j \in 0..(n - 1) : balance - 21000 * DrainPriceAt(j) <= 0

\* a drain transaction at a reduced gas price
C9_Witness ==
    \E k \in DOMAIN balanceEmptyingTransactions :
        /\ balanceEmptyingTransactions[k].GasPrice < gasPrice
        /\ balanceEmptyingTransactions[k].Value > 0

\* transferBalances is done with the account at index k
Drained(k) ==
    \/ pc = "transferBalances" /\ k < x
    \/ phase = 3 /\ pc \in {"send", "await", "done"}

\* no positive price of the sequence leaves a positive amount
NothingToDrain(acct) ==
    \A n \in 0..gasPrice :
        ~(DrainPriceAt(n) > 0 /\ acct.Balance - 21000 * DrainPriceAt(n) > 0)

\* C10: the gas-price reduction of the drain terminates, emits nothing at a gas
\* price of zero or less, and an account for which no positive price leaves a
\* positive amount gets no transaction and keeps its Balance and Nonce.
C10_DrainTerminates ==
    /\ [](\A k \in DOMAIN balanceEmptyingTransactions :
             balanceEmptyingTransactions[k].GasPrice > 0)
    /\ [](\A k \in DOMAIN accounts :
             (Drained(k) /\ NothingToDrain(accounts[k])) =>
                 TxsFrom(balanceEmptyingTransactions, accounts[k].Address) = <<>>)
    /\ [][pc = "transferBalances" => accounts' = accounts]_vars
    /\ [](pc = "transferBalances" => <>(pc = "send" /\ phase = 3))

\* an account with a balance, given up on after the price was reduced
C10_Witness ==
    /\ pc = "done"
    /\ gasPrice > 0
    /\ \E k \in DOMAIN accounts :
          /\ accounts[k].Balance > 0
          /\ NothingToDrain(accounts[k])
          /\ TxsFrom(balanceEmptyingTransactions, accounts[k].Address) = <<>>

\* the position main moves to from position p in simulate mode with list number ph
SimulateSuccessor(p, ph) ==
    CASE p = "start" -> {"transferGas"}
      [] p = "transferGas" -> {"transferGas", "send"}
      [] p = "send" /\ ph = 1 -> {"send", "transferTokens"}
      [] p = "transferTokens" -> {"transferTokens", "send"}
      [] p = "send" /\ ph = 2 -> {"send", "transferBalances"}
      [] p = "transferBalances" -> {"transferBalances", "send"}
      [] p = "send" /\ ph = 3 -> {"send", "done"}
      [] OTHER -> {p}

\* C11: in simulate mode nothing is submitted, no confirmation wait and no
\* balance refresh occurs, the three planners run in order up to the end of
\* main, and the drain plans against the accounts as transferGas and
\* transferTokens left them.
C11_SimulateSideEffectFree ==
    /\ [](simulate => (pending = {} /\ pc \notin {"await", "refresh"}))
    /\ [][simulate => (pc' \in SimulateSuccessor(pc, phase) /\ phase' \in {phase, phase + 1})]_vars
    /\ [][(simulate /\ pc \in {"send", "transferBalances"}) => accounts' = accounts]_vars
    /\ [](simulate =>
            \A k \in DOMAIN balanceEmptyingTransactions :
                LET tx == balanceEmptyingTransactions[k]
                    acct == AccountAt(accounts, tx.Address)
                IN  /\ tx.Value = acct.Balance - tx.GasPrice * TransferGas
                    /\ tx.Nonce = acct.Nonce)
    /\ (simulate => <>(pc = "done"))

\* a simulated run that planned transactions in all three phases
C11_Witness ==
    /\ simulate
    /\ pc = "done"
    /\ gasTransactions # <<>>
    /\ tokenTransactions # <<>>
    /\ balanceEmptyingTransactions # <<>>

\* the slice GetAccounts builds when its map is iterated in the order p
Permuted(accs, p) == [k \in DOMAIN accs |-> accs[p[k]]]

\* the gas plan followed by the token plan for the slice accs
PlannedFrom(accs) ==
    LET gas == TransferGasResult(accs, <<>>, gasPrice)
    IN  gas.transactions \o TransferTokensResult(gas.accounts, 1, <<>>, gasPrice)

\* C12: the transactions planned from a snapshot and a gas price are the same
\* sequence in whichever order the accounts of the snapshot are supplied.
C12_PlanIndependentOfOrder ==
    (pc = "transferGas" /\ gasTransactions = <<>>) =>
        \A p \in Perms(DOMAIN accounts) :
            PlannedFrom(Permuted(accounts, p)) = PlannedFrom(accounts)

\* the first call of transferGas is about to run on a deficit account A with
\* Balance 0 and a budget of 2 and a token-less account B, at a gas price of 1
ScenarioAB(A, B) ==
    /\ pc = "transferGas"
    /\ gasTransactions = <<>>
    /\ gasPrice = 1
    /\ Len(accounts) = 2
    /\ A # B
    /\ accounts[A].Balance = 0
    /\ accounts[A].TotalAssetTransfer = 2
    /\ accounts[B].Tokens = <<>>
    /\ accounts[B].TotalAssetTransfer = 0

\* what the scenario says of the call: one transaction from B to A of value 2,
\* A funded, B's Available lowered by amount + fee, and nothing more to emit
ScenarioOutcome(A, B) ==
    LET a == accounts[A].Address
        b == accounts[B].Address
    IN  /\ gasTransactions' = <<Last(gasTransactions')>>
        /\ Last(gasTransactions').Address = b
        /\ Last(gasTransactions').To = AccountTo(a)
        /\ Last(gasTransactions').Value = 2
        /\ AccountAt(accounts', a).Balance
              >= TotalAssetTransferPrice(AccountAt(accounts', a), gasPrice)
        /\ AccountAt(accounts', b).Balance - TotalAssetTransferPrice(AccountAt(accounts', b), gasPrice)
              = accounts[B].Balance - TotalAssetTransferPrice(accounts[B], gasPrice)
                  - (2 + TransferCost(gasPrice))
        /\ EmittingPairs(Negatives(accounts', gasPrice), Positives(accounts', gasPrice),
                         gasPrice) = {}

\* C13 as stated: B has an Available of 10.
C13_ScenarioAsStated ==
    [][\A A, B \in DOMAIN accounts :
          (ScenarioAB(A, B) /\ accounts[B].Balance = 10) => ScenarioOutcome(A, B)]_vars

\* C13 amended: B's Available covers the amount and the fee, 2 + 21000 x 1.
C13_ScenarioCovered ==
    [][\A A, B \in DOMAIN accounts :
          (ScenarioAB(A, B) /\ accounts[B].Balance >= 2 + TransferCost(gasPrice))
              => ScenarioOutcome(A, B)]_vars

\* transferGas has returned the one transfer of 2 from an account that held 21012
C13_Witness ==
    /\ pc = "send"
    /\ phase = 1
    /\ gasPrice = 1
    /\ Len(gasTransactions) = 1
    /\ gasTransactions[1].Value = 2
    /\ AccountAt(accounts, gasTransactions[1].Address).Balance = 10
    /\ AccountAt(accounts, gasTransactions[1].Address).Available = 10
    /\ AccountAt(accounts, gasTransactions[1].To.id).Balance = 2

\* C14: when not simulating, sendTransactions hands the transactions of the
\* list to SendTx one by one in list order, each once, whether the one before
\* was accepted or failed, and then goes on to AwaitTransactions.
C14_EverySubmittedOnce ==
    /\ []((~simulate /\ pc = "send") =>
            pending \subseteq {TxId(phase, k) : k \in 1..(sendIdx - 1)})
    /\ [][(~simulate /\ pc = "send") =>
            \/ /\ sendIdx <= Len(Transactions(phase))
               /\ sendIdx' = sendIdx + 1
               /\ pc' = "send"
               /\ pending' \in {pending, pending \cup {TxId(phase, sendIdx)}}
               /\ Transactions(phase)' = Transactions(phase)
            \/ /\ sendIdx > Len(Transactions(phase))
               /\ pc' = "await"
               /\ pending' = pending
            \/ /\ sendIdx' = sendIdx
               /\ pc' = "send"
               /\ pending' \subseteq pending]_vars
    /\ []((~simulate /\ pc = "send") => <>(pc = "await"))

\* the wait is reached with the second transfer of an account submitted after
\* its first one failed or was mined
C14_Witness ==
    /\ ~simulate
    /\ pc = "await"
    /\ phase = 2
    /\ Len(tokenTransactions) >= 2
    /\ tokenTransactions[1].Address = tokenTransactions[2].Address
    /\ TxId(2, 1) \notin pending
    /\ TxId(2, 2) \in pending

\* C15: when transferTokens moves past an affordable token without a
\* transaction (its signature failed), the accounts, Nonce and Balance included,
\* are as before, and the loops go on with the account's next token, or with
\* the next account after its last token, as after a token that was skipped.
C15_SignFailureSkipsToken ==
    [][(/\ pc = "transferTokens"
        /\ x <= Len(accounts)
        /\ y >= 1
        /\ TokenAffordable(accounts[x], accounts[x].Tokens[y], gasPrice)
        /\ tokenTransactions' = tokenTransactions
        /\ <<x, y>>' # <<x, y>>)
       => /\ accounts' = accounts
          /\ pc' = "transferTokens"
          /\ IF y < Len(accounts[x].Tokens)
             THEN x' = x /\ y' = y + 1
             ELSE x' = x + 1 /\ y' = 0]_vars

\* the first account's first token was passed over although its fee was
\* covered, its second token was swept, and so was a token of the next account
C15_Witness ==
    /\ pc = "send"
    /\ phase = 2
    /\ Len(accounts) = 2
    /\ Len(accounts[1].Tokens) = 2
    /\ Len(tokenTransactions) = 2
    /\ tokenTransactions[1].Address = accounts[1].Address
    /\ tokenTransactions[1].To = ContractTo(accounts[1].Tokens[2].Contract)
    /\ tokenTransactions[1].Nonce = NonceAt(accounts[1].Address)
    /\ tokenTransactions[2].Address = accounts[2].Address

\* C16: every account for which the node reports a balance other than zero is
\* in the slice discovery hands to transferGas, whatever its log query returned.
C16_FundedAccountsKept ==
    [][pc = "start" =>
         \A a \in Addresses :
             node.balance[a] # 0 => \E k \in DOMAIN accounts' : accounts'[k].Address = a]_vars

\* C17: once transferGas has returned, every account's Available is its Balance
\* minus GasPrice x TotalGasBudget in every state between the steps of
\* transferTokens and transferBalances, after each change of a Balance too.
C17_AvailableUpToDate ==
    pc \notin {"start", "transferGas"} =>
        \A k \in DOMAIN accounts :
            accounts[k].Available =
                accounts[k].Balance - TotalAssetTransferPrice(accounts[k], gasPrice)

\* Available as the next call of transferGas computes it
AvailableOf(acct) == acct.Balance - TotalAssetTransferPrice(acct, gasPrice)

\* C18: the receiver of a transaction of transferGas is the deficit account
\* whose Available is closest to zero, and its sender is the surplus account
\* with the greatest Available.
C18_LeastDeficientFirst ==
    [][GasEmitted =>
         LET tx == Last(gasTransactions')
             receiver == AccountAt(accounts, tx.To.id)
             sender == AccountAt(accounts, tx.Address)
         IN  \A k \in DOMAIN accounts :
                 IF IsNegative(accounts[k], gasPrice)
                 THEN AvailableOf(accounts[k]) <= AvailableOf(receiver)
                 ELSE AvailableOf(accounts[k]) <= AvailableOf(sender)]_vars

\* C19: when the sender's Available covers the receiver's budget and the fee,
\* the transaction of transferGas carries exactly the receiver's budget,
\* GasPrice x TotalGasBudget, and the receiver is a surplus account afterwards.
C19_FullBudgetSent ==
    [][GasEmitted =>
         LET tx == Last(gasTransactions')
             receiver == AccountAt(accounts, tx.To.id)
             sender == AccountAt(accounts, tx.Address)
             need == TotalAssetTransferPrice(receiver, gasPrice)
         IN  AvailableOf(sender) >= need + TransferCost(gasPrice) =>
                 /\ tx.Value = need
                 /\ ~IsNegative(AccountAt(accounts', tx.To.id), gasPrice)]_vars

\* C20: when transferGas has returned there is no deficit account together with
\* a surplus account whose Available exceeds the fee of a transfer.
C20_NoPairLeftAtReturn ==
    (pc = "send" /\ phase = 1) =>
        ~ \E i, j \in DOMAIN accounts :
              /\ IsNegative(accounts[i], gasPrice)
              /\ ~IsNegative(accounts[j], gasPrice)
              /\ accounts[j].Available > TransferCost(gasPrice)

\* transferGas has returned after a transfer with an account still in deficit
C20_Witness ==
    /\ pc = "send"
    /\ phase = 1
    /\ gasTransactions # <<>>
    /\ \E i \in DOMAIN accounts : IsNegative(accounts[i], gasPrice)

\* C21: a token whose fee the Balance does not cover gets no transaction and
\* leaves the accounts, Balance and Nonce included, as they were; the loops go
\* on with the account's next token, or with the next account after its last
\* token, and transferTokens returns only after the last account.
C21_SkipLeavesAccount ==
    /\ [][(/\ pc = "transferTokens"
           /\ x <= Len(accounts)
           /\ y >= 1
           /\ ~TokenAffordable(accounts[x], accounts[x].Tokens[y], gasPrice)
           /\ <<x, y>>' # <<x, y>>)
          => /\ accounts' = accounts
             /\ tokenTransactions' = tokenTransactions
             /\ pc' = "transferTokens"
             /\ IF y < Len(accounts[x].Tokens)
                THEN x' = x /\ y' = y + 1
                ELSE x' = x + 1 /\ y' = 0]_vars
    /\ [][(pc = "transferTokens" /\ pc' # "transferTokens") => x > Len(accounts)]_vars

\* the first account could pay for neither of its two tokens and the token of
\* the account after it was swept
C21_Witness ==
    /\ pc = "send"
    /\ phase = 2
    /\ gasPrice > 0
    /\ Len(accounts) = 2
    /\ Len(accounts[1].Tokens) = 2
    /\ ~TokenAffordable(accounts[1], accounts[1].Tokens[1], gasPrice)
    /\ ~TokenAffordable(accounts[1], accounts[1].Tokens[2], gasPrice)
    /\ accounts[1].Nonce = NonceAt(accounts[1].Address)
    /\ Len(tokenTransactions) = 1
    /\ tokenTransactions[1].Address = accounts[2].Address

RECURSIVE SumGasLimit(_)
SumGasLimit(tokens) ==
    IF tokens = <<>> THEN 0 ELSE Head(tokens).GasLimit + SumGasLimit(Tail(tokens))

\* C22: once discovery is over, every account's TotalAssetTransfer is the sum
\* of the GasLimit of the tokens of its Tokens list.
C22_BudgetIsSumOfGasLimits ==
    pc # "start" =>
        \A k \in DOMAIN accounts :
            accounts[k].TotalAssetTransfer = SumGasLimit(accounts[k].Tokens)

\* the fees of the first n tokens of the account
RECURSIVE FeesOfFirst(_, _)
FeesOfFirst(acct, n) ==
    IF n = 0 THEN 0
    ELSE TokenTransferCost(acct.Tokens[n], gasPrice) + FeesOfFirst(acct, n - 1)

\* C23: an account that was a surplus account when transferGas returned and has
\* had a transfer emitted for each of its tokens so far, in order, can pay for
\* the token that is up: without a signing failure it gets one transfer for
\* every token it holds.
C23_FundedAccountSweptWhole ==
    (pc = "transferTokens" /\ x <= Len(accounts) /\ y >= 1) =>
        LET acct == accounts[x]
            txs == TxsFrom(tokenTransactions, acct.Address)
        IN  (/\ Len(txs) = y - 1
             /\ acct.Balance + FeesOfFirst(acct, y - 1)
                   >= TotalAssetTransferPrice(acct, gasPrice))
            => /\ TokenAffordable(acct, acct.Tokens[y], gasPrice)
               /\ \A j \in 1..(y - 1) : txs[j].To = ContractTo(acct.Tokens[j].Contract)

\* an account that held nothing was sent its budget and had both tokens swept
C23_Witness ==
    /\ pc = "send"
    /\ phase = 2
    /\ gasPrice > 0
    /\ \E k \in DOMAIN accounts :
          /\ Len(accounts[k].Tokens) = 2
          /\ Len(TxsFrom(tokenTransactions, accounts[k].Address)) = 2
          /\ accounts[k].Balance = 0
          /\ \E j \in DOMAIN gasTransactions :
                /\ gasTransactions[j].To = AccountTo(accounts[k].Address)
                /\ gasTransactions[j].Value = TotalAssetTransferPrice(accounts[k], gasPrice)

\* the transactions transferGas and transferTokens have emitted so far
Emitted == gasTransactions \o tokenTransactions

\* what a transaction changes in the reference ledger balance of address a
LedgerChange(a, tx) ==
    (IF tx.Address = a THEN 0 - (tx.Value + tx.Gas * tx.GasPrice) ELSE 0)
    + (IF tx.To = AccountTo(a) THEN tx.Value ELSE 0)

\* what a step changes in the reference ledger balance of address a: the
\* change of the transaction the step emits, if it emits one
LedgerStep(a) ==
    IF Emitted' = Emitted THEN 0 ELSE LedgerChange(a, Last(Emitted'))

\* C24: the in-memory Balance never exceeds the balance of a reference ledger
\* that starts from the snapshot and applies the emitted transactions in
\* order: the two are equal when transferGas is first called, and no step of
\* transferGas or transferTokens raises an account's Balance by more, or lowers
\* it by less, than the step's transaction changes the ledger.
C24_NeverOverEstimates ==
    /\ [][pc = "start" =>
            \A k \in DOMAIN accounts' :
                accounts'[k].Balance = node.balance[accounts'[k].Address]]_vars
    /\ [][(pc = "transferGas" \/ pc = "transferTokens") =>
            /\ Len(Emitted') <= Len(Emitted) + 1
            /\ \A k \in DOMAIN accounts :
                  LET a == accounts[k].Address
                  IN  AccountAt(accounts', a).Balance - accounts[k].Balance
                          <= LedgerStep(a)]_vars

\* both planners have emitted transactions and a sender of transferGas is
\* planned with less than the ledger would hold for it
C24_Witness ==
    /\ pc = "send"
    /\ phase = 2
    /\ gasTransactions # <<>>
    /\ tokenTransactions # <<>>
    /\ \E k \in DOMAIN accounts : accounts[k].Balance < 0

\* C25: the GasLimit discovery gives a token is the estimate, or 40000 when the
\* estimate fails, times 1.7, unless a token_transfer_gas_limit other than zero
\* is configured, which then replaces it; with none configured it is not 0.
C25_OverrideOnlyWhenConfigured ==
    [][pc = "start" =>
         \A k \in DOMAIN accounts' :
             \A j \in DOMAIN accounts'[k].Tokens :
                 LET gasLimit == IF node.estimate = EstimateFails
                                 THEN FallbackGasEstimate ELSE node.estimate
                     limit == accounts'[k].Tokens[j].GasLimit
                 IN  IF transferGasLimit # 0
                     THEN limit = transferGasLimit
                     ELSE limit = (gasLimit * 17) \div 10 /\ limit # 0]_vars

====
